---- MODULE Spec2Model ----
(***************************************************************************)
(* Model of the egghunt scripts: the round-robin APIKeyManager             *)
(* (api_key_manager.py) and the multi-faction fetch pipeline of            *)
(* egg_hunt_V2.py (one global Queue, a pool of worker threads per faction, *)
(* a lock-guarded result dict, then json dump and the per-faction report). *)
(* The single-faction script egg_hunt.py is modelled near the end, on the  *)
(* same variables.                                                         *)
(***************************************************************************)
EXTENDS Integers, Sequences, FiniteSets, TLC

(***************************************************************************)
(* Bounds of the model.                                                    *)
(***************************************************************************)
\* threads spawned per faction; egg_hunt_V2.py:154 sets 14, the model runs fewer
num_threads == 2
\* largest statistic value the upstream answers when it answers freely
MaxVal == 1
\* how many rate-limit answers (error code 5) a freely answering upstream gives
MaxRateLimits == 1
\* how many get_next_key calls the key-manager harness makes
MaxCalls == 5

(***************************************************************************)
(* Program constants.                                                      *)
(***************************************************************************)
\* response.status_code of a successful call (egg_hunt_V2.py:73)
HTTP_OK == 200
\* any other status code; the code only tests == 200
HTTP_ERROR == 500
\* error code of "too many requests" in a 200 body (egg_hunt_V2.py:75)
RATE_LIMIT_CODE == 5

\* an unbound local / absent field
NoVal == 0 - 1

Max(a, b) == IF a >= b THEN a ELSE b

Range(s) == {s[i] : i \in 1..Len(s)}

VARIABLES
    faction_keys,        \* content of faction_keys.json: sequence of entries
    key_cycles,          \* APIKeyManager.key_cycles: faction id -> cycle iterator
    km_log,              \* results of the get_next_key calls of the harness
    upstream,            \* what the remote API answers (rosters and statistics)
    rl_left,             \* rate-limit answers a freely answering upstream still gives
    member_queue,        \* Queue(): the FIFO of member ids
    unfinished_tasks,    \* Queue.unfinished_tasks (put +1, task_done -1)
    results_lock,        \* threading.Lock(): 0 when free, else the holding worker
    all_personal_stats,  \* the result dict, in insertion order
    orch_pc,             \* position of the main thread
    faction_idx,         \* index of the faction fetch_all_factions is processing
    members,             \* fetch_all_factions' local dict id -> name (ordered)
    threads,             \* number of threads started for the current faction
    join_idx,            \* number of threads already joined
    wpc,                 \* position of each worker thread
    worker_args,         \* (faction_id, faction_name, members) of each worker
    member_id,           \* worker local
    api_key,             \* worker local
    response_with_timestamp,     \* worker local: the response's status_code
    response_without_timestamp,  \* worker local: the response's status_code
    previous_total,      \* worker local
    current_total,       \* worker local
    current_year_value,  \* worker local
    output_file,         \* user_profile_data.json: whether written, and its content
    report               \* the per-faction tables extract_easter_egg_hunt_scores emits

km_vars == <<faction_keys, key_cycles, km_log>>
env_vars == <<upstream, rl_left>>
queue_vars == <<member_queue, unfinished_tasks>>
orch_vars == <<orch_pc, faction_idx, members, threads, join_idx>>
local_vars == <<member_id, api_key, response_with_timestamp,
                response_without_timestamp, previous_total, current_total,
                current_year_value>>
out_vars == <<output_file, report>>
vars == <<faction_keys, key_cycles, km_log, upstream, rl_left, member_queue,
          unfinished_tasks, results_lock, all_personal_stats, orch_pc,
          faction_idx, members, threads, join_idx, wpc, worker_args, member_id,
          api_key, response_with_timestamp, response_without_timestamp,
          previous_total, current_total, current_year_value, output_file,
          report>>

Workers == 1..num_threads

(***************************************************************************)
(* api_key_manager.py                                                      *)
(***************************************************************************)
\* one entry of faction_keys.json; has_keys = FALSE models an entry without
\* the "keys" field
Entry(id, name, has_keys, keys) ==
    [id |-> id, faction_name |-> name, has_keys |-> has_keys, keys |-> keys]

\* itertools.cycle(keys): the saved keys and the position of the next one
cycle(keys) == [keys |-> keys, pos |-> 1]

\* _load_keys: registers a cycle per entry in file order; the first entry
\* without "keys" raises inside the try, which ends the loop and is swallowed
RECURSIVE load_from(_, _, _)
load_from(config, i, cycles) ==
    IF i > Len(config) THEN cycles
    ELSE IF ~config[i].has_keys THEN cycles
    ELSE load_from(config, i + 1,
                   [f \in (DOMAIN cycles) \cup {config[i].id} |->
                        IF f = config[i].id THEN cycle(config[i].keys)
                        ELSE cycles[f]])

EmptyFn == [f \in {} |-> 0]

_load_keys(config) == load_from(config, 1, EmptyFn)

\* a mutant: the cursor is not advanced
get_next_key_stuck(cycles, faction_id) ==
    IF faction_id \notin DOMAIN cycles
    THEN [raised |-> "ValueError", key |-> "", cycles |-> cycles]
    ELSE IF Len(cycles[faction_id].keys) = 0
    THEN [raised |-> "StopIteration", key |-> "", cycles |-> cycles]
    ELSE [raised |-> "",
          key |-> cycles[faction_id].keys[cycles[faction_id].pos],
          cycles |-> cycles]

\* a mutant: an unknown faction is registered on the fly with a default key
get_next_key_default(cycles, faction_id) ==
    IF faction_id \notin DOMAIN cycles
    THEN [raised |-> "", key |-> "default",
          cycles |-> [f \in (DOMAIN cycles) \cup {faction_id} |->
                          IF f = faction_id THEN cycle(<<"default">>)
                          ELSE cycles[f]]]
    ELSE IF Len(cycles[faction_id].keys) = 0
    THEN [raised |-> "StopIteration", key |-> "", cycles |-> cycles]
    ELSE [raised |-> "",
          key |-> cycles[faction_id].keys[cycles[faction_id].pos],
          cycles |-> [cycles EXCEPT ![faction_id].pos =
                          (@ % Len(cycles[faction_id].keys)) + 1]]

\* get_next_key: ValueError for an unregistered id, else next() of the cycle
\* (StopIteration when the key list is empty); returns the new cycles too
get_next_key(cycles, faction_id) ==
    IF faction_id \notin DOMAIN cycles
    THEN [raised |-> "ValueError", key |-> "", cycles |-> cycles]
    ELSE IF Len(cycles[faction_id].keys) = 0
    THEN [raised |-> "StopIteration", key |-> "", cycles |-> cycles]
    ELSE [raised |-> "",
          key |-> cycles[faction_id].keys[cycles[faction_id].pos],
          cycles |-> [cycles EXCEPT ![faction_id].pos =
                          (@ % Len(cycles[faction_id].keys)) + 1]]

(***************************************************************************)
(* The remote API, as far as the scripts can tell its answers apart.       *)
(***************************************************************************)
\* requests.get raised (a network error): there is no response
Raise == [raised |-> TRUE, status_code |-> 0, error_code |-> 0, value |-> NoVal]
\* the response locals before a call has returned (kept as the status code)
NoResponse == 0 - 1
\* a response whose status_code is not 200
BadStatus == [raised |-> FALSE, status_code |-> HTTP_ERROR, error_code |-> 0,
              value |-> NoVal]
\* a 200 response; error_code 0 means the body has no "error" field, value
\* NoVal means the body lacks the statistic
Body(error_code, value) ==
    [raised |-> FALSE, status_code |-> HTTP_OK, error_code |-> error_code,
     value |-> value]
RateLimited == Body(RATE_LIMIT_CODE, NoVal)

\* what the upstream does for one member: answer freely ("any"), or follow a
\* script: "ok" (both calls succeed with ref and cur), "non200" (both calls
\* return a bad status), "rate_once" (call number rl_at is rate-limited once,
\* after which the member is "ok", rl_at recording the call that was limited),
\* "rate_always" (every call is rate-limited, for ever)
Behaviour(kind, ref, cur, rl_at) ==
    [kind |-> kind, ref |-> ref, cur |-> cur, rl_at |-> rl_at]
Free == Behaviour("any", 0, 0, 0)

\* the answers the upstream may give to call number `call` (1: with the
\* timestamp, 2: without) for member m in the current state
StatsAnswers(m, call) ==
    LET b == upstream.stats[m] IN
    IF b.kind = "any"
    THEN {Raise, BadStatus, Body(0, NoVal)}
         \cup {Body(0, v) : v \in 0..MaxVal}
         \cup (IF rl_left > 0 THEN {RateLimited} ELSE {})
    ELSE IF b.kind = "non200" THEN {BadStatus}
    ELSE IF b.kind = "rate_always" THEN {RateLimited}
    ELSE IF b.kind = "rate_once" /\ call = b.rl_at
    THEN {RateLimited}
    ELSE {Body(0, IF call = 1 THEN b.ref ELSE b.cur)}

\* the answers to the "list members" call: the answer carries the member list
\* of the body (has_members = FALSE: a 200 body without "members")
MembersAnswer(raised, status_code, has_members, list) ==
    [raised |-> raised, status_code |-> status_code,
     has_members |-> has_members, members |-> list]
Member(id, name) == [id |-> id, name |-> name]

\* every answer the list call can get when the faction's members are `list`
AnyMembersAnswer(list) ==
    {MembersAnswer(TRUE, 0, FALSE, <<>>),
     MembersAnswer(FALSE, HTTP_ERROR, FALSE, <<>>),
     MembersAnswer(FALSE, HTTP_OK, FALSE, <<>>),
     MembersAnswer(FALSE, HTTP_OK, TRUE, list)}

(***************************************************************************)
(* Runs the model explores: a configuration file and an upstream.          *)
(***************************************************************************)
Scenario(config, members_of, stats, budget) ==
    [config |-> config, members |-> members_of, stats |-> stats,
     budget |-> budget]

ConfigAB == <<Entry("A", "Alpha", TRUE, <<"a1", "a2">>),
              Entry("B", "Beta", TRUE, <<"b1">>)>>
ConfigA == <<Entry("A", "Alpha", TRUE, <<"a1", "a2">>)>>

\* one faction of two members: every call for member 1, and the list call,
\* is answered freely, member 2 follows a script
FreeScenarios ==
    {Scenario(ConfigA,
              [f \in {"A"} |->
                  AnyMembersAnswer(<<Member("1", "Ann"), Member("2", "Bob")>>)],
              [m \in {"1", "2"} |-> IF m = "1" THEN Free ELSE b],
              MaxRateLimits)
       : b \in {Behaviour("rate_once", 0, 1, 2), Behaviour("non200", 0, 0, 0)}}

\* scripted runs of two factions: A with two credentials and three members,
\* B with one credential and one member
RosterA == <<Member("1", "Ann"), Member("2", "Bob"), Member("3", "Cid")>>
RosterB == <<Member("4", "Dee")>>

ScriptedStats ==
    {[m \in {"1", "2", "3", "4"} |->
         CASE m = "1" -> b1 [] m = "2" -> b2 [] m = "3" -> b3 [] OTHER -> b4]
       : b1 \in {Behaviour("ok", 2, 5, 0), Behaviour("rate_once", 2, 5, 2)},
         b2 \in {Behaviour("non200", 0, 0, 0), Behaviour("ok", 2, 5, 0)},
         b3 \in {Behaviour("rate_once", 0, 1, 1), Behaviour("rate_once", 0, 1, 2)},
         b4 \in {Behaviour("ok", 1, 0, 0)}}

ScriptedScenarios ==
    {Scenario(ConfigAB,
              [f \in {"A", "B"} |->
                  {MembersAnswer(FALSE, HTTP_OK, TRUE,
                                 IF f = "A" THEN RosterA ELSE RosterB)}],
              stats, 0)
       : stats \in ScriptedStats}

\* the end-to-end run: member 1 succeeds with 2 and 5, member 2 gets a bad
\* status, member 3 is rate-limited once (on either call) and then succeeds
\* with 0 and 1; a served "rate_once" script reads "ok" with rl_at kept
IsEndToEnd(u) ==
    /\ {"1", "2", "3"} \subseteq DOMAIN u.stats
    /\ u.stats["1"] = Behaviour("ok", 2, 5, 0)
    /\ u.stats["2"] = Behaviour("non200", 0, 0, 0)
    /\ u.stats["3"].ref = 0 /\ u.stats["3"].cur = 1 /\ u.stats["3"].rl_at > 0

\* the runs explored under fairness: one faction whose single member is
\* answered freely, and the end-to-end run of one faction of three members
\* (the rate limit on the first or on the second call)
RetryScenarios ==
    {Scenario(ConfigA,
              [f \in {"A"} |-> AnyMembersAnswer(<<Member("1", "Ann")>>)],
              [m \in {"1"} |-> Free],
              MaxRateLimits)}
    \cup
    {Scenario(ConfigA,
              [f \in {"A"} |-> {MembersAnswer(FALSE, HTTP_OK, TRUE, RosterA)}],
              [m \in {"1", "2", "3"} |->
                  CASE m = "1" -> Behaviour("ok", 2, 5, 0)
                    [] m = "2" -> Behaviour("non200", 0, 0, 0)
                    [] OTHER -> Behaviour("rate_once", 0, 1, rl_at)],
              0)
       : rl_at \in {1, 2}}

\* a configuration file whose only entry lacks "keys": _load_keys registers
\* nothing, while fetch_all_factions still iterates over the entry
ConfigNoKeys == <<Entry("A", "Alpha", FALSE, <<>>)>>

BrokenScenarios ==
    {Scenario(ConfigNoKeys,
              [f \in {"A"} |-> AnyMembersAnswer(<<Member("1", "Ann")>>)],
              [m \in {"1"} |-> Free],
              0)}

Scenarios ==
    FreeScenarios \cup ScriptedScenarios \cup RetryScenarios
        \cup BrokenScenarios

\* scripted runs of two factions in which the upstream answers every call for
\* member 2 of the first faction with the rate-limit code
StarvedScenarios ==
    {Scenario(ConfigAB,
              [f \in {"A", "B"} |->
                  {MembersAnswer(FALSE, HTTP_OK, TRUE,
                                 IF f = "A"
                                 THEN <<Member("1", "Ann"), Member("2", "Bob")>>
                                 ELSE RosterB)}],
              [m \in {"1", "2", "4"} |->
                  CASE m = "1" -> b1
                    [] m = "2" -> Behaviour("rate_always", 0, 0, 0)
                    [] OTHER -> Behaviour("ok", 1, 0, 0)],
              0)
       : b1 \in {Behaviour("ok", 2, 5, 0), Behaviour("non200", 0, 0, 0)}}

\* scripted runs in which the member lists of both factions contain member 1
\* (the upstream lists it for B as well), so its key is seeded twice
OverlapScenarios ==
    {Scenario(ConfigAB,
              [f \in {"A", "B"} |->
                  {MembersAnswer(FALSE, HTTP_OK, TRUE,
                                 IF f = "A" THEN <<Member("1", "Ann")>>
                                 ELSE <<Member("4", "Dee"), Member("1", "Ann")>>)}],
              [m \in {"1", "4"} |->
                  IF m = "1" THEN b1 ELSE Behaviour("ok", 1, 0, 0)],
              0)
       : b1 \in {Behaviour("ok", 2, 5, 0), Behaviour("rate_once", 2, 5, 2)}}

(***************************************************************************)
(* Python dicts keep insertion order: a dict is a sequence of items.       *)
(***************************************************************************)
Item(k, v) == [key |-> k, value |-> v]
Keys(d) == {d[i].key : i \in 1..Len(d)}
KeyList(d) == [i \in 1..Len(d) |-> d[i].key]
\* d[k]
Lookup(d, k) == (CHOOSE i \in 1..Len(d) : d[i].key = k)
DictGet(d, k, default) ==
    IF k \in Keys(d) THEN d[Lookup(d, k)].value ELSE default
\* d[k] = v: a new key goes last, an old key keeps its place and gets v
DictSet(d, k, v) ==
    IF k \in Keys(d) THEN [d EXCEPT ![Lookup(d, k)].value = v]
    ELSE Append(d, Item(k, v))

\* {str(member["id"]): member.get("name", "Unknown") for member in data["members"]}
RECURSIVE members_dict(_, _, _)
members_dict(list, i, d) ==
    IF i > Len(list) THEN d
    ELSE members_dict(list, i + 1, DictSet(d, list[i].id, list[i].name))

(***************************************************************************)
(* queue.Queue                                                             *)
(***************************************************************************)
\* put: append, one more unfinished task
put(q, item) == [items |-> Append(q.items, item), unfinished |-> q.unfinished + 1]

\* a mutant: the seeding loop starts one member too late
put_all_skip(q, ids, i) ==
    IF i > Len(ids) THEN q
    ELSE [items |-> q.items \o SubSeq(ids, i + 1, Len(ids)),
          unfinished |-> q.unfinished + Len(ids) - i]

RECURSIVE put_all(_, _, _)
put_all(q, ids, i) ==
    IF i > Len(ids) THEN q ELSE put_all(put(q, ids[i]), ids, i + 1)

TheQueue == [items |-> member_queue, unfinished |-> unfinished_tasks]

(***************************************************************************)
(* Positions of a worker thread (fetch_personal_stats_worker).             *)
(***************************************************************************)
\* between member_queue.get() and member_queue.task_done()
InAttempt == {"key", "call1", "call2", "backoff", "requeue", "store", "locked",
              "except", "task_done", "task_done_continue"}
\* the thread has ended: the loop was left, or an exception escaped
Terminated == {"done", "dead"}

NoArgs == [faction_id |-> "", faction_name |-> "", members |-> <<>>]

(***************************************************************************)
(* Initial states.                                                         *)
(***************************************************************************)
InitWith(scenario) ==
    /\ faction_keys = scenario.config
    /\ key_cycles = _load_keys(scenario.config)
    /\ km_log = <<>>
    /\ upstream = [members |-> scenario.members, stats |-> scenario.stats]
    /\ rl_left = scenario.budget
    /\ member_queue = <<>>
    /\ unfinished_tasks = 0
    /\ results_lock = 0
    /\ all_personal_stats = <<>>
    /\ faction_idx = 1
    /\ members = <<>>
    /\ threads = 0
    /\ join_idx = 0
    /\ wpc = [w \in Workers |-> "idle"]
    /\ worker_args = [w \in Workers |-> NoArgs]
    /\ member_id = [w \in Workers |-> ""]
    /\ api_key = [w \in Workers |-> ""]
    /\ response_with_timestamp = [w \in Workers |-> NoResponse]
    /\ response_without_timestamp = [w \in Workers |-> NoResponse]
    /\ previous_total = [w \in Workers |-> NoVal]
    /\ current_total = [w \in Workers |-> NoVal]
    /\ current_year_value = [w \in Workers |-> NoVal]
    /\ output_file = [written |-> FALSE, data |-> <<>>]
    /\ report = <<>>

Init ==
    /\ \E scenario \in Scenarios : InitWith(scenario)
    /\ orch_pc = "for_faction"

InitOverlap ==
    /\ \E scenario \in Scenarios \cup OverlapScenarios : InitWith(scenario)
    /\ orch_pc = "for_faction"

InitStarved ==
    /\ \E scenario \in Scenarios \cup StarvedScenarios : InitWith(scenario)
    /\ orch_pc = "for_faction"

InitRetry ==
    /\ \E scenario \in RetryScenarios : InitWith(scenario)
    /\ orch_pc = "for_faction"

(***************************************************************************)
(* fetch_personal_stats_worker, one action per step of the loop.           *)
(***************************************************************************)
Goto(w, pc) == wpc' = [wpc EXCEPT ![w] = pc]

\* line 61: while not member_queue.empty()
WCheck(w) ==
    /\ wpc[w] = "check"
    /\ Goto(w, IF member_queue = <<>> THEN "done" ELSE "get")
    /\ UNCHANGED <<km_vars, env_vars, queue_vars, results_lock,
                   all_personal_stats, orch_vars, worker_args, local_vars,
                   out_vars>>

\* line 62: member_queue.get() blocks while the queue is empty
WGet(w) ==
    /\ wpc[w] = "get"
    /\ member_queue # <<>>
    /\ member_id' = [member_id EXCEPT ![w] = Head(member_queue)]
    /\ member_queue' = Tail(member_queue)
    /\ Goto(w, "key")
    /\ UNCHANGED <<km_vars, env_vars, unfinished_tasks, results_lock,
                   all_personal_stats, orch_vars, worker_args, api_key,
                   response_with_timestamp, response_without_timestamp,
                   previous_total, current_total, current_year_value, out_vars>>

\* line 63: key_manager.get_next_key(faction_id), outside the try: an
\* exception ends the thread. The call is one step of the worker: the cursor
\* moves inside next() of the cycle object, a single call of a built-in that
\* the interpreter does not interrupt; api_key_manager.py itself takes no
\* lock, so what concurrent calls do on another interpreter is not modelled
WKey(w) ==
    /\ wpc[w] = "key"
    /\ LET r == get_next_key(key_cycles, worker_args[w].faction_id) IN
         IF r.raised # ""
         THEN /\ Goto(w, "dead")
              /\ UNCHANGED <<key_cycles, api_key>>
         ELSE /\ Goto(w, "call1")
              /\ key_cycles' = r.cycles
              /\ api_key' = [api_key EXCEPT ![w] = r.key]
    /\ UNCHANGED <<faction_keys, km_log, env_vars, queue_vars, results_lock,
                   all_personal_stats, orch_vars, worker_args, member_id,
                   response_with_timestamp, response_without_timestamp,
                   previous_total, current_total, current_year_value, out_vars>>

\* lines 82-83 and 100: the statistic of the body, 0 when it is missing
stat_or_default(resp) == IF resp.value = NoVal THEN 0 ELSE resp.value

\* the upstream after answering member m: a rate-limit answer is spent, from
\* the member's script or else from the budget of free answers
Spend(m, resp) ==
    IF resp # RateLimited \/ upstream.stats[m].kind = "rate_always"
    THEN UNCHANGED <<upstream, rl_left>>
    ELSE IF upstream.stats[m].kind = "rate_once"
    THEN /\ upstream' = [upstream EXCEPT !.stats[m].kind = "ok"]
         /\ UNCHANGED rl_left
    ELSE /\ rl_left' = rl_left - 1
         /\ UNCHANGED upstream

\* a mutant: the error code of the body is not looked at
after_call_ignores_error(resp, after) ==
    IF resp.raised THEN "except" ELSE after

\* where the worker goes after a call, `after` being the next step when the
\* call gave a value: lines 73-86 and 91-103
after_call(resp, after) ==
    IF resp.raised THEN "except"
    ELSE IF resp.status_code = HTTP_OK /\ resp.error_code = RATE_LIMIT_CODE
    THEN "backoff"
    ELSE after

\* the value a call leaves in its local: the statistic for a 200 body, 0 for
\* another status; nothing is assigned when the call raised or was rate-limited
total_after(old, resp) ==
    IF resp.raised THEN old
    ELSE IF resp.status_code = HTTP_OK
    THEN (IF resp.error_code = RATE_LIMIT_CODE THEN old
          ELSE stat_or_default(resp))
    ELSE 0

\* the response local after a call: assigned unless requests.get raised
response_after(old, resp) == IF resp.raised THEN old ELSE resp.status_code

\* lines 71-86: the call with the timestamp
WCall1(w) ==
    /\ wpc[w] = "call1"
    /\ \E resp \in StatsAnswers(member_id[w], 1) :
         /\ Spend(member_id[w], resp)
         /\ Goto(w, after_call(resp, "call2"))
         /\ response_with_timestamp' =
                [response_with_timestamp EXCEPT ![w] = response_after(@, resp)]
         /\ previous_total' =
                [previous_total EXCEPT ![w] = total_after(@, resp)]
    /\ UNCHANGED <<km_vars, queue_vars, results_lock,
                   all_personal_stats, orch_vars, worker_args, member_id,
                   api_key, response_without_timestamp, current_total,
                   current_year_value, out_vars>>

\* lines 89-103: the call without the timestamp
WCall2(w) ==
    /\ wpc[w] = "call2"
    /\ \E resp \in StatsAnswers(member_id[w], 2) :
         /\ Spend(member_id[w], resp)
         /\ Goto(w, after_call(resp, "store"))
         /\ response_without_timestamp' =
                [response_without_timestamp EXCEPT
                    ![w] = response_after(@, resp)]
         /\ current_total' =
                [current_total EXCEPT ![w] = total_after(@, resp)]
    /\ UNCHANGED <<km_vars, queue_vars, results_lock,
                   all_personal_stats, orch_vars, worker_args, member_id,
                   api_key, response_with_timestamp, previous_total,
                   current_year_value, out_vars>>

\* lines 79 and 97: time.sleep(retry_after)
WBackoff(w) ==
    /\ wpc[w] = "backoff"
    /\ Goto(w, "requeue")
    /\ UNCHANGED <<km_vars, env_vars, queue_vars, results_lock,
                   all_personal_stats, orch_vars, worker_args, local_vars,
                   out_vars>>

\* a mutant: the rate-limit branch forgets to put the member back
requeue_lost(q, item) == q

\* a mutant: the rate-limit branch puts the member back twice
requeue_twice(q, item) == put(put(q, item), item)

\* what the rate-limit branch does to the queue: member_queue.put(member_id)
requeue(q, item) == put(q, item)

\* a mutant: `continue` leaves the iteration without running finally
after_requeue_skips_finally == "check"

\* line 81 and 99: `continue` inside try: the finally clause runs first
after_requeue == "task_done_continue"

\* lines 80-81 and 98-99: put the member back, then continue (through finally)
WRequeue(w) ==
    /\ wpc[w] = "requeue"
    /\ member_queue' = requeue(TheQueue, member_id[w]).items
    /\ unfinished_tasks' = requeue(TheQueue, member_id[w]).unfinished
    /\ Goto(w, after_requeue)
    /\ UNCHANGED <<km_vars, env_vars, results_lock, all_personal_stats,
                   orch_vars, worker_args, local_vars, out_vars>>

\* a mutant: the difference is not floored
derive_unfloored(current, previous) == current - previous

\* line 106
derive(current, previous) == Max(0, current - previous)

\* lines 106 and 109: compute the value, then enter `with results_lock`
WAcquire(w) ==
    /\ wpc[w] = "store"
    /\ results_lock = 0
    /\ results_lock' = w
    /\ current_year_value' =
           [current_year_value EXCEPT
               ![w] = derive(current_total[w], previous_total[w])]
    /\ Goto(w, "locked")
    /\ UNCHANGED <<km_vars, env_vars, queue_vars, all_personal_stats,
                   orch_vars, worker_args, member_id, api_key,
                   response_with_timestamp, response_without_timestamp,
                   previous_total, current_total, out_vars>>

\* a mutant: the totals are added to those of the record the key already has
record_accumulated(w) ==
    LET old == DictGet(all_personal_stats, member_id[w],
                       [current_year_value |-> 0, all_time_total |-> 0])
    IN [name |-> DictGet(worker_args[w].members, member_id[w], "Unknown"),
        faction_name |-> worker_args[w].faction_name,
        current_year_value |-> old.current_year_value + current_year_value[w],
        all_time_total |-> old.all_time_total + current_total[w]]

\* lines 110-115: the record written for the member
record(w) ==
    [name |-> DictGet(worker_args[w].members, member_id[w], "Unknown"),
     faction_name |-> worker_args[w].faction_name,
     current_year_value |-> current_year_value[w],
     all_time_total |-> current_total[w]]

\* lines 110-116: write the record and leave the with block
WWrite(w) ==
    /\ wpc[w] = "locked"
    /\ results_lock = w
    /\ all_personal_stats' = DictSet(all_personal_stats, member_id[w], record(w))
    /\ results_lock' = 0
    /\ Goto(w, "task_done")
    /\ UNCHANGED <<km_vars, env_vars, queue_vars, orch_vars, worker_args,
                   local_vars, out_vars>>

\* lines 118-119: the handler only prints
WExcept(w) ==
    /\ wpc[w] = "except"
    /\ Goto(w, "task_done")
    /\ UNCHANGED <<km_vars, env_vars, queue_vars, results_lock,
                   all_personal_stats, orch_vars, worker_args, local_vars,
                   out_vars>>

\* Queue.task_done: one unfinished task less; called too often it raises
task_done(q) ==
    IF q.unfinished <= 0 THEN [raised |-> TRUE, unfinished |-> q.unfinished]
    ELSE [raised |-> FALSE, unfinished |-> q.unfinished - 1]

\* a mutant: the rate-limit branch leaves the loop (break for continue)
after_finally_breaks(pc) == IF pc = "task_done_continue" THEN "done" ELSE "pace"

\* where the loop goes after finally: the pacing sleep, or straight to the
\* loop test after `continue`
after_finally(pc) == IF pc = "task_done_continue" THEN "check" ELSE "pace"

\* lines 120-121: finally: member_queue.task_done(); the locals are dead until
\* the next iteration assigns them
WTaskDone(w) ==
    /\ wpc[w] \in {"task_done", "task_done_continue"}
    /\ LET r == task_done(TheQueue) IN
         /\ unfinished_tasks' = r.unfinished
         /\ Goto(w, IF r.raised THEN "dead" ELSE after_finally(wpc[w]))
    /\ member_id' = [member_id EXCEPT ![w] = ""]
    /\ api_key' = [api_key EXCEPT ![w] = ""]
    /\ response_with_timestamp' =
           [response_with_timestamp EXCEPT ![w] = NoResponse]
    /\ response_without_timestamp' =
           [response_without_timestamp EXCEPT ![w] = NoResponse]
    /\ previous_total' = [previous_total EXCEPT ![w] = NoVal]
    /\ current_total' = [current_total EXCEPT ![w] = NoVal]
    /\ current_year_value' = [current_year_value EXCEPT ![w] = NoVal]
    /\ UNCHANGED <<km_vars, env_vars, member_queue, results_lock,
                   all_personal_stats, orch_vars, worker_args, out_vars>>

\* line 122: time.sleep(1.5)
WPace(w) ==
    /\ wpc[w] = "pace"
    /\ Goto(w, "check")
    /\ UNCHANGED <<km_vars, env_vars, queue_vars, results_lock,
                   all_personal_stats, orch_vars, worker_args, local_vars,
                   out_vars>>

Worker(w) ==
    \/ WCheck(w) \/ WGet(w) \/ WKey(w) \/ WCall1(w) \/ WCall2(w)
    \/ WBackoff(w) \/ WRequeue(w) \/ WAcquire(w) \/ WWrite(w) \/ WExcept(w)
    \/ WTaskDone(w) \/ WPace(w)

(***************************************************************************)
(* fetch_faction_members and fetch_all_factions (the main thread).         *)
(***************************************************************************)
\* lines 41-51: the dict of the answer, empty for a bad status or a body
\* without "members"
members_of_answer(ans) ==
    IF ans.status_code = HTTP_OK /\ ans.has_members
    THEN members_dict(ans.members, 1, <<>>)
    ELSE <<>>

\* lines 137-143: next faction of the loop, and fetch_faction_members; an
\* exception of get_next_key or of requests.get is not caught anywhere
OFetchMembers ==
    /\ orch_pc = "for_faction"
    /\ faction_idx <= Len(faction_keys)
    /\ LET r == get_next_key(key_cycles, faction_keys[faction_idx].id) IN
         IF r.raised # ""
         THEN /\ orch_pc' = "crashed"
              /\ UNCHANGED <<key_cycles, members>>
         ELSE /\ key_cycles' = r.cycles
              /\ \E ans \in upstream.members[faction_keys[faction_idx].id] :
                   IF ans.raised
                   THEN /\ orch_pc' = "crashed"
                        /\ UNCHANGED members
                   ELSE /\ orch_pc' = "seed"
                        /\ members' = members_of_answer(ans)
    /\ UNCHANGED <<faction_keys, km_log, env_vars, queue_vars, results_lock,
                   all_personal_stats, faction_idx, threads, join_idx, wpc,
                   worker_args, local_vars, out_vars>>

\* lines 143-150: member_ids = list(members.keys()); put each on the queue
OSeed ==
    /\ orch_pc = "seed"
    /\ member_queue' = put_all(TheQueue, KeyList(members), 1).items
    /\ unfinished_tasks' = put_all(TheQueue, KeyList(members), 1).unfinished
    /\ orch_pc' = "start"
    /\ threads' = 0
    /\ UNCHANGED <<km_vars, env_vars, results_lock, all_personal_stats,
                   faction_idx, members, join_idx, wpc, worker_args,
                   local_vars, out_vars>>

\* lines 156-159: start one thread with the faction's arguments
OStart ==
    /\ orch_pc = "start"
    /\ threads < num_threads
    /\ threads' = threads + 1
    /\ wpc' = [wpc EXCEPT ![threads + 1] = "check"]
    /\ worker_args' =
           [worker_args EXCEPT
               ![threads + 1] =
                   [faction_id |-> faction_keys[faction_idx].id,
                    faction_name |-> faction_keys[faction_idx].faction_name,
                    members |-> members]]
    /\ orch_pc' = IF threads + 1 = num_threads THEN "join" ELSE "start"
    /\ join_idx' = 0
    /\ UNCHANGED <<km_vars, env_vars, queue_vars, results_lock,
                   all_personal_stats, faction_idx, members, local_vars,
                   out_vars>>

\* a mutant: join does not wait for the thread
joinable_at_once(w) == TRUE

\* a mutant: the main thread waits for the queue (Queue.join) and not for
\* the threads
joinable_queue_join(w) == unfinished_tasks = 0

\* whether thread.join() on worker w returns
joinable(w) == wpc[w] \in Terminated

\* lines 162-165: join the threads in the order they were started; after the
\* last one the loop goes to the next faction
OJoin ==
    /\ orch_pc = "join"
    /\ join_idx < num_threads
    /\ joinable(join_idx + 1)
    /\ join_idx' = join_idx + 1
    /\ IF join_idx + 1 = num_threads
       THEN /\ orch_pc' = "for_faction"
            /\ faction_idx' = faction_idx + 1
       ELSE UNCHANGED <<orch_pc, faction_idx>>
    /\ UNCHANGED <<km_vars, env_vars, queue_vars, results_lock,
                   all_personal_stats, members, threads, wpc, worker_args,
                   local_vars, out_vars>>

\* lines 167-171: after the loop, json.dump(all_personal_stats)
OPersist ==
    /\ orch_pc = "for_faction"
    /\ faction_idx > Len(faction_keys)
    /\ output_file' = [written |-> TRUE, data |-> all_personal_stats]
    /\ orch_pc' = "extract"
    /\ UNCHANGED <<km_vars, env_vars, queue_vars, results_lock,
                   all_personal_stats, faction_idx, members, threads, join_idx,
                   wpc, worker_args, local_vars, report>>

(***************************************************************************)
(* extract_easter_egg_hunt_scores                                          *)
(***************************************************************************)
\* line 198: the tuple of one user
Row(item) ==
    [user_id |-> item.key, name |-> item.value.name,
     faction_name |-> item.value.faction_name,
     current_year_value |-> item.value.current_year_value,
     all_time_total |-> item.value.all_time_total]

\* lines 186-198: the rows grouped by faction name, factions and rows in the
\* order of the file
RECURSIVE group_by_faction(_, _, _)
group_by_faction(data, i, grouped) ==
    IF i > Len(data) THEN grouped
    ELSE LET row == Row(data[i])
             old == DictGet(grouped, row.faction_name, <<>>)
         IN group_by_faction(data, i + 1,
                             DictSet(grouped, row.faction_name, Append(old, row)))

\* a mutant: the list is sorted ascending
RECURSIVE insert_asc(_, _)
insert_asc(sorted, row) ==
    IF sorted = <<>> THEN <<row>>
    ELSE IF Head(sorted).current_year_value <= row.current_year_value
    THEN <<Head(sorted)>> \o insert_asc(Tail(sorted), row)
    ELSE <<row>> \o sorted

\* where a row goes in a list already sorted: behind every row whose value is
\* at least as large, so equal rows keep their order (list.sort is stable, and
\* so it is with reverse=True)
RECURSIVE insert_desc(_, _)
insert_desc(sorted, row) ==
    IF sorted = <<>> THEN <<row>>
    ELSE IF Head(sorted).current_year_value >= row.current_year_value
    THEN <<Head(sorted)>> \o insert_desc(Tail(sorted), row)
    ELSE <<row>> \o sorted

\* line 206: users.sort(key=lambda x: x[3], reverse=True)
RECURSIVE sort_desc(_, _, _)
sort_desc(users, i, sorted) ==
    IF i > Len(users) THEN sorted
    ELSE sort_desc(users, i + 1, insert_desc(sorted, users[i]))

\* lines 204-215: one sorted table per faction
extract_easter_egg_hunt_scores(data) ==
    LET grouped == group_by_faction(data, 1, <<>>) IN
    [i \in 1..Len(grouped) |->
        Item(grouped[i].key, sort_desc(grouped[i].value, 1, <<>>))]

\* line 234: the report is made from the file just written
OExtract ==
    /\ orch_pc = "extract"
    /\ report' = extract_easter_egg_hunt_scores(output_file.data)
    /\ orch_pc' = "done"
    /\ UNCHANGED <<km_vars, env_vars, queue_vars, results_lock,
                   all_personal_stats, faction_idx, members, threads, join_idx,
                   wpc, worker_args, local_vars, output_file>>

Orchestrator == OFetchMembers \/ OSeed \/ OStart \/ OJoin \/ OPersist \/ OExtract

Next == Orchestrator \/ \E w \in Workers : Worker(w)

Spec == Init /\ [][Next]_vars

\* the runs of Spec and those in which a member is listed by two factions
SpecOverlap == InitOverlap /\ [][Next]_vars

\* the runs of Spec and those in which a member is rate-limited for ever
SpecStarved == InitStarved /\ [][Next]_vars

\* the runs of RetryScenarios in which every thread that can take a step
\* eventually takes one
FairSpec ==
    /\ InitRetry
    /\ [][Next]_vars
    /\ WF_vars(Orchestrator)
    /\ \A w \in Workers : WF_vars(Worker(w))

(***************************************************************************)
(* A harness that calls get_next_key on a loaded APIKeyManager.            *)
(***************************************************************************)
KMFactionIds == {"A", "B", "C", "Z"}

\* configuration files: C's entry may lack "keys", which ends _load_keys
\* early; Z is never in the file
KMConfigs ==
    {<<Entry("A", "Alpha", TRUE, <<"a1", "a2", "a3">>),
       Entry("B", "Beta", TRUE, <<"b1", "b2">>),
       Entry("C", "Gamma", TRUE, <<"c1">>)>>,
     <<Entry("A", "Alpha", TRUE, <<"a1", "a2">>),
       Entry("C", "Gamma", FALSE, <<>>),
       Entry("B", "Beta", TRUE, <<"b1">>)>>}

InitKM ==
    /\ \E config \in KMConfigs :
         InitWith(Scenario(config, EmptyFn, EmptyFn, 0))
    /\ orch_pc = "harness"

KMCall(faction_id) ==
    /\ orch_pc = "harness"
    /\ Len(km_log) < MaxCalls
    /\ LET r == get_next_key(key_cycles, faction_id) IN
         /\ key_cycles' = r.cycles
         /\ km_log' = Append(km_log, [faction_id |-> faction_id,
                                      raised |-> r.raised, key |-> r.key])
    /\ UNCHANGED <<faction_keys, env_vars, queue_vars, results_lock,
                   all_personal_stats, orch_vars, wpc, worker_args, local_vars,
                   out_vars>>

NextKM == \E faction_id \in KMFactionIds : KMCall(faction_id)

SpecKM == InitKM /\ [][NextKM]_vars

(***************************************************************************)
(* egg_hunt.py: the single-faction script. It shares no state with         *)
(* egg_hunt_V2.py; its member_queue, results_lock, all_personal_stats,     *)
(* threads and output_file are kept in the variables of the same name,     *)
(* member_names in members, the fetched `stats` of a worker in             *)
(* current_total (as its easter_eggs field, NoVal when the body lacks it), *)
(* sorted_egg_differences in report, and faction_personalstats_OG.json in  *)
(* upstream.original.                                                      *)
(***************************************************************************)
\* the answers the personalstats call of egg_hunt.py can get (line 55)
V1Answers ==
    {Raise, BadStatus, RateLimited, Body(0, NoVal)}
        \cup {Body(0, v) : v \in 0..MaxVal}

\* contents of faction_personalstats_OG.json: the reference count of each
\* member, in file order; member 9 has left the faction since
OriginalFiles ==
    {<<Item("1", a), Item("2", b)>> : a, b \in 0..MaxVal}
        \cup {<<Item("9", a), Item("1", a)>> : a \in 0..MaxVal}

InitV1 ==
    /\ faction_keys = <<>>
    /\ key_cycles = EmptyFn
    /\ km_log = <<>>
    /\ \E original \in OriginalFiles :
         upstream =
             [members |->
                  AnyMembersAnswer(<<Member("1", "Ann"), Member("2", "Bob")>>),
              original |-> original]
    /\ rl_left = 0
    /\ member_queue = <<>>
    /\ unfinished_tasks = 0
    /\ results_lock = 0
    /\ all_personal_stats = <<>>
    /\ orch_pc = "v1_members"
    /\ faction_idx = 1
    /\ members = <<>>
    /\ threads = 0
    /\ join_idx = 0
    /\ wpc = [w \in Workers |-> "idle"]
    /\ worker_args = [w \in Workers |-> NoArgs]
    /\ member_id = [w \in Workers |-> ""]
    /\ api_key = [w \in Workers |-> ""]
    /\ response_with_timestamp = [w \in Workers |-> NoResponse]
    /\ response_without_timestamp = [w \in Workers |-> NoResponse]
    /\ previous_total = [w \in Workers |-> NoVal]
    /\ current_total = [w \in Workers |-> NoVal]
    /\ current_year_value = [w \in Workers |-> NoVal]
    /\ output_file = [written |-> FALSE, data |-> <<>>]
    /\ report = <<>>

\* line 50: while not member_queue.empty()
V1Check(w) ==
    /\ wpc[w] = "v1_check"
    /\ Goto(w, IF member_queue = <<>> THEN "done" ELSE "v1_get")
    /\ UNCHANGED <<km_vars, env_vars, queue_vars, results_lock,
                   all_personal_stats, orch_vars, worker_args, local_vars,
                   out_vars>>

\* line 51: member_queue.get() blocks while the queue is empty
V1Get(w) ==
    /\ wpc[w] = "v1_get"
    /\ member_queue # <<>>
    /\ member_id' = [member_id EXCEPT ![w] = Head(member_queue)]
    /\ member_queue' = Tail(member_queue)
    /\ Goto(w, "v1_call")
    /\ UNCHANGED <<km_vars, env_vars, unfinished_tasks, results_lock,
                   all_personal_stats, orch_vars, worker_args, api_key,
                   response_with_timestamp, response_without_timestamp,
                   previous_total, current_total, current_year_value, out_vars>>

\* where the worker of egg_hunt.py goes after its call: lines 55-64
v1_after_call(resp) ==
    IF resp.raised THEN "v1_except"
    ELSE IF resp.status_code = HTTP_OK THEN "v1_store"
    ELSE "v1_task_done"

\* lines 55-57 and 61-62: the call; a 200 body is kept whole as stats
V1Call(w) ==
    /\ wpc[w] = "v1_call"
    /\ \E resp \in V1Answers :
         /\ Goto(w, v1_after_call(resp))
         /\ current_total' =
                [current_total EXCEPT
                    ![w] = IF v1_after_call(resp) = "v1_store"
                           THEN resp.value ELSE @]
    /\ UNCHANGED <<km_vars, env_vars, queue_vars, results_lock,
                   all_personal_stats, orch_vars, worker_args, member_id,
                   api_key, response_with_timestamp,
                   response_without_timestamp, previous_total,
                   current_year_value, out_vars>>

\* lines 58-60: with results_lock: all_personal_stats[member_id] = stats
V1Store(w) ==
    /\ wpc[w] = "v1_store"
    /\ results_lock = 0
    /\ all_personal_stats' =
           DictSet(all_personal_stats, member_id[w], current_total[w])
    /\ Goto(w, "v1_task_done")
    /\ UNCHANGED <<km_vars, env_vars, queue_vars, results_lock, orch_vars,
                   worker_args, local_vars, out_vars>>

\* lines 63-64: the handler only prints
V1Except(w) ==
    /\ wpc[w] = "v1_except"
    /\ Goto(w, "v1_task_done")
    /\ UNCHANGED <<km_vars, env_vars, queue_vars, results_lock,
                   all_personal_stats, orch_vars, worker_args, local_vars,
                   out_vars>>

\* lines 65-66: finally: member_queue.task_done()
V1TaskDone(w) ==
    /\ wpc[w] = "v1_task_done"
    /\ LET r == task_done(TheQueue) IN
         /\ unfinished_tasks' = r.unfinished
         /\ Goto(w, IF r.raised THEN "dead" ELSE "v1_pace")
    /\ member_id' = [member_id EXCEPT ![w] = ""]
    /\ current_total' = [current_total EXCEPT ![w] = NoVal]
    /\ UNCHANGED <<km_vars, env_vars, member_queue, results_lock,
                   all_personal_stats, orch_vars, worker_args, api_key,
                   response_with_timestamp, response_without_timestamp,
                   previous_total, current_year_value, out_vars>>

\* line 67: time.sleep(0.6)
V1Pace(w) ==
    /\ wpc[w] = "v1_pace"
    /\ Goto(w, "v1_check")
    /\ UNCHANGED <<km_vars, env_vars, queue_vars, results_lock,
                   all_personal_stats, orch_vars, worker_args, local_vars,
                   out_vars>>

V1Worker(w) ==
    \/ V1Check(w) \/ V1Get(w) \/ V1Call(w) \/ V1Store(w) \/ V1Except(w)
    \/ V1TaskDone(w) \/ V1Pace(w)

\* lines 70-76: member_names, from the API (or from members.json, which holds
\* an earlier answer); an exception of requests.get ends the script
V1Members ==
    /\ orch_pc = "v1_members"
    /\ \E ans \in upstream.members :
         IF ans.raised
         THEN /\ orch_pc' = "crashed"
              /\ UNCHANGED members
         ELSE /\ orch_pc' = "v1_seed"
              /\ members' = members_of_answer(ans)
    /\ UNCHANGED <<km_vars, env_vars, queue_vars, results_lock,
                   all_personal_stats, faction_idx, threads, join_idx, wpc,
                   worker_args, local_vars, out_vars>>

\* lines 80-81: put every member id on the queue
V1Seed ==
    /\ orch_pc = "v1_seed"
    /\ member_queue' = put_all(TheQueue, KeyList(members), 1).items
    /\ unfinished_tasks' = put_all(TheQueue, KeyList(members), 1).unfinished
    /\ orch_pc' = "v1_start"
    /\ threads' = 0
    /\ UNCHANGED <<km_vars, env_vars, results_lock, all_personal_stats,
                   faction_idx, members, join_idx, wpc, worker_args,
                   local_vars, out_vars>>

\* lines 87-90: start one thread
V1Start ==
    /\ orch_pc = "v1_start"
    /\ threads < num_threads
    /\ threads' = threads + 1
    /\ wpc' = [wpc EXCEPT ![threads + 1] = "v1_check"]
    /\ orch_pc' = IF threads + 1 = num_threads THEN "v1_join" ELSE "v1_start"
    /\ join_idx' = 0
    /\ UNCHANGED <<km_vars, env_vars, queue_vars, results_lock,
                   all_personal_stats, faction_idx, members, worker_args,
                   local_vars, out_vars>>

\* lines 93-94: join the threads in the order they were started
V1Join ==
    /\ orch_pc = "v1_join"
    /\ join_idx < num_threads
    /\ joinable(join_idx + 1)
    /\ join_idx' = join_idx + 1
    /\ orch_pc' = IF join_idx + 1 = num_threads THEN "v1_persist" ELSE "v1_join"
    /\ UNCHANGED <<km_vars, env_vars, queue_vars, results_lock,
                   all_personal_stats, faction_idx, members, threads, wpc,
                   worker_args, local_vars, out_vars>>

\* lines 99-100: json.dump(all_personal_stats)
V1Persist ==
    /\ orch_pc = "v1_persist"
    /\ output_file' = [written |-> TRUE, data |-> all_personal_stats]
    /\ orch_pc' = "v1_diff"
    /\ UNCHANGED <<km_vars, env_vars, queue_vars, results_lock,
                   all_personal_stats, faction_idx, members, threads, join_idx,
                   wpc, worker_args, local_vars, report>>

\* lines 117-118: the chain of .get(..., {}) ending in .get("easter_eggs", 0):
\* 0 for a member the file lacks and for stats without the field
easter_eggs(data, id) ==
    IF DictGet(data, id, NoVal) = NoVal THEN 0 ELSE DictGet(data, id, NoVal)

\* line 119
difference(new_eggs, original_eggs) == new_eggs - original_eggs

\* lines 116-121: one (member_name, difference) per member of the original file
RECURSIVE egg_differences(_, _, _, _, _)
egg_differences(original_data, new_data, member_names, i, acc) ==
    IF i > Len(original_data) THEN acc
    ELSE LET id == original_data[i].key IN
         egg_differences(
             original_data, new_data, member_names, i + 1,
             Append(acc,
                    [member_name |-> DictGet(member_names, id, "Unknown"),
                     difference |->
                         difference(easter_eggs(new_data, id),
                                    easter_eggs(original_data, id))]))

\* where a row goes in a list sorted by difference, largest first, equal rows
\* keeping their order
RECURSIVE insert_by_difference(_, _)
insert_by_difference(sorted, row) ==
    IF sorted = <<>> THEN <<row>>
    ELSE IF Head(sorted).difference >= row.difference
    THEN <<Head(sorted)>> \o insert_by_difference(Tail(sorted), row)
    ELSE <<row>> \o sorted

\* line 124: sorted(egg_differences, key=lambda x: x[1], reverse=True)
RECURSIVE sorted_egg_differences(_, _, _)
sorted_egg_differences(rows, i, sorted) ==
    IF i > Len(rows) THEN sorted
    ELSE sorted_egg_differences(rows, i + 1,
                                insert_by_difference(sorted, rows[i]))

\* lines 106-131: the differences against the original file, sorted, as they
\* go to egg_hunt_results.csv and to the console
V1Diff ==
    /\ orch_pc = "v1_diff"
    /\ report' =
           sorted_egg_differences(
               egg_differences(upstream.original, output_file.data, members,
                               1, <<>>),
               1, <<>>)
    /\ orch_pc' = "v1_done"
    /\ UNCHANGED <<km_vars, env_vars, queue_vars, results_lock,
                   all_personal_stats, faction_idx, members, threads, join_idx,
                   wpc, worker_args, local_vars, output_file>>

V1Main == V1Members \/ V1Seed \/ V1Start \/ V1Join \/ V1Persist \/ V1Diff

NextV1 == V1Main \/ \E w \in Workers : V1Worker(w)

SpecV1 == InitV1 /\ [][NextV1]_vars

(***************************************************************************)
(* Properties of the key manager (checked under SpecKM).                   *)
(***************************************************************************)
\* the credentials the file configures for a faction id
ConfiguredKeys(faction_id) ==
    LET i == CHOOSE i \in 1..Len(faction_keys) : faction_keys[i].id = faction_id
    IN faction_keys[i].keys

\* the calls made for one faction id, in call order
CallsFor(faction_id) ==
    SelectSeq(km_log, LAMBDA e : e.faction_id = faction_id)

\* C1: for a registered faction with k >= 1 credentials, the i-th call of
\* get_next_key returns credential ((i-1) mod k) of the configured list and
\* does not raise, so after N calls every credential was returned floor(N/k)
\* or ceil(N/k) times
C1_RoundRobin ==
    \A g \in DOMAIN key_cycles :
        LET keys == ConfiguredKeys(g)
            k == Len(keys)
            calls == CallsFor(g)
            N == Len(calls)
        IN k >= 1 =>
             /\ \A i \in 1..N :
                  /\ calls[i].raised = ""
                  /\ calls[i].key = keys[((i - 1) % k) + 1]
             /\ \A j \in 1..k :
                  Cardinality({i \in 1..N : calls[i].key = keys[j]})
                      \in {N \div k, (N + k - 1) \div k}

\* C1 witness: a faction with several credentials was asked more often than it
\* has credentials, so the rotation wrapped around
C1_Witness ==
    \E g \in DOMAIN key_cycles :
        /\ Len(ConfiguredKeys(g)) >= 2
        /\ Len(CallsFor(g)) > Len(ConfiguredKeys(g))

\* C2: a call of get_next_key for an id that is not registered raises
\* ValueError and leaves every cursor as it was
C2_UnregisteredFails ==
    [][(km_log' # km_log /\ km_log'[Len(km_log')].faction_id \notin DOMAIN key_cycles)
           => /\ km_log'[Len(km_log')].raised = "ValueError"
              /\ key_cycles' = key_cycles]_vars

\* C2 witness: an unregistered id was asked for after calls that moved a cursor
C2_Witness ==
    \E i \in 2..Len(km_log) :
        /\ km_log[i].faction_id \notin DOMAIN key_cycles
        /\ km_log[i].raised = "ValueError"
        /\ km_log[i - 1].raised = ""

(***************************************************************************)
(* Properties of the fetch pipeline (checked under Spec or FairSpec).      *)
(***************************************************************************)
Recorded(m) == m \in Keys(all_personal_stats)
Holding(w, m) == wpc[w] \in InAttempt /\ member_id[w] = m
BadStatusSeen(status) == status \notin {NoResponse, HTTP_OK}

\* C3: the record a worker writes holds max(0, current - previous) and the
\* current total, both totals being those of the two calls of this attempt
\* (the statistic of a 200 answer, 0 after another status)
C3_RecordIsDelta ==
    [][\A w \in Workers :
          (wpc[w] = "locked" /\ wpc'[w] # "locked") =>
              /\ response_with_timestamp[w] # NoResponse
              /\ response_without_timestamp[w] # NoResponse
              /\ previous_total[w] >= 0
              /\ current_total[w] >= 0
              /\ BadStatusSeen(response_with_timestamp[w])
                     => previous_total[w] = 0
              /\ BadStatusSeen(response_without_timestamp[w])
                     => current_total[w] = 0
              /\ member_id[w] \in Keys(all_personal_stats')
              /\ LET r == DictGet(all_personal_stats', member_id[w], NoArgs) IN
                   /\ r.current_year_value =
                          Max(0, current_total[w] - previous_total[w])
                   /\ r.all_time_total = current_total[w]]_vars

\* C3 witness: a worker has written a record whose current total is below the
\* reference total, so the floor at 0 applied
C3_Witness ==
    \E w \in Workers :
        /\ wpc[w] = "task_done"
        /\ Recorded(member_id[w])
        /\ current_total[w] >= 0
        /\ previous_total[w] > current_total[w]
        /\ current_year_value[w] = 0

\* C4 (as claimed): a worker whose attempt got a non-200 status on either call
\* has 0 in that field, is not on the way to re-enqueue the item, and ends the
\* attempt with the item's record written
C4_BadStatusStillRecords ==
    \A w \in Workers :
        (BadStatusSeen(response_with_timestamp[w])
            \/ BadStatusSeen(response_without_timestamp[w])) =>
            /\ BadStatusSeen(response_with_timestamp[w]) => previous_total[w] = 0
            /\ BadStatusSeen(response_without_timestamp[w])
                   => current_total[w] = 0
            /\ wpc[w] \notin {"backoff", "requeue", "task_done_continue", "except"}
            /\ wpc[w] = "task_done" => Recorded(member_id[w])

\* the pool of the faction fetched last has been joined
PoolFinished ==
    \/ orch_pc \in {"extract", "done"}
    \/ orch_pc = "for_faction" /\ faction_idx > 1

\* C5 (as claimed): items are never dropped, an item whose call failed (bad
\* status or network exception) gets a defaulted record: once the pool has
\* finished, every member that was seeded is a key of the result store
C5_FailedItemsRecorded ==
    PoolFinished => \A m \in Keys(members) : Recorded(m)

\* a worker is in the backoff sleep of a rate-limited attempt on m
BackingOff(m) == \E w \in Workers : wpc[w] = "backoff" /\ member_id[w] = m
\* an attempt on m has ended in the exception handler
Raised(m) == \E w \in Workers : wpc[w] = "except" /\ member_id[w] = m

\* C6: an item whose attempt was rate-limited is put back on the queue and
\* then ends in the result store, unless a later attempt of it raises
C6_RetriedItemRecorded ==
    \A m \in {"1", "2", "3"} :
        BackingOff(m) ~>
            (m \in Range(member_queue) /\ <>(Recorded(m) \/ Raised(m)))

\* C6 witness: the record of a member that was rate-limited has just been
\* written by a worker while every other worker has already terminated
C6_Witness ==
    \E w \in Workers :
        /\ wpc[w] = "task_done"
        /\ Recorded(member_id[w])
        /\ upstream.stats[member_id[w]].kind = "ok"
        /\ upstream.stats[member_id[w]].rl_at > 0
        /\ \A v \in Workers \ {w} : wpc[v] = "done"

\* C7: unfinished_tasks is the number of queued items plus the number of
\* attempts between get and task_done; it is never negative, it is 0 exactly
\* when nothing is queued or in progress, and task_done is never called once
\* too often (no worker dies of its ValueError)
C7_JoinAccounting ==
    LET held == Cardinality({w \in Workers : wpc[w] \in InAttempt}) IN
    /\ unfinished_tasks = Len(member_queue) + held
    /\ unfinished_tasks >= 0
    /\ (unfinished_tasks = 0) <=> (member_queue = <<>> /\ held = 0)
    /\ \A w \in Workers : wpc[w] # "dead"

\* C7 witness: a worker has re-enqueued its item and not yet acknowledged the
\* attempt, while another worker already works on the re-enqueued item
C7_Witness ==
    \E w, v \in Workers :
        /\ w # v
        /\ wpc[w] = "task_done_continue"
        /\ Holding(v, member_id[w])
        /\ unfinished_tasks = 2

\* every call returns an answer (none raises) and a member is rate-limited at
\* most once: the runs whose answers follow a script
Scripted == \A m \in DOMAIN upstream.stats : upstream.stats[m].kind # "any"

\* C8 (as claimed): when every external call returns and rate limits are
\* finite, a run that has not reached the end of the script can always take a
\* further step: no worker and no join waits for ever
C8_RunCompletes == Scripted => (orch_pc = "done" \/ ENABLED Next)

\* what the report must show for a member, from the script of its answers
ExpectedValue(m) ==
    IF upstream.stats[m].kind = "non200" THEN 0
    ELSE Max(0, upstream.stats[m].cur - upstream.stats[m].ref)

\* C9: when every member of faction Alpha succeeds, gets a bad status, or is
\* rate-limited once and then succeeds, the finished report lists each of its
\* members once with its derived value, largest value first; in the
\* end-to-end run the rows are member 1 (3), member 3 (1), member 2 (0)
C9_EndToEndReport ==
    (orch_pc = "done" /\ Scripted) =>
        LET rows == DictGet(report, "Alpha", <<>>) IN
        /\ Len(rows) = Len(RosterA)
        /\ \A i \in 1..Len(RosterA) :
             \E j \in 1..Len(rows) :
                 /\ rows[j].user_id = RosterA[i].id
                 /\ rows[j].current_year_value = ExpectedValue(RosterA[i].id)
        /\ \A i, j \in 1..Len(rows) :
             i < j => rows[i].current_year_value >= rows[j].current_year_value
        /\ IsEndToEnd(upstream) =>
             /\ [i \in 1..Len(rows) |-> rows[i].user_id] = <<"1", "3", "2">>
             /\ [i \in 1..Len(rows) |-> rows[i].current_year_value] = <<3, 1, 0>>

\* C9 witness: the end-to-end run has produced its report
C9_Witness ==
    /\ orch_pc = "done"
    /\ IsEndToEnd(upstream)
    /\ Len(DictGet(report, "Alpha", <<>>)) = 3

\* C10: once the result store is persisted, every worker has terminated and
\* the store is still what was written to the file: nothing writes to it at
\* or after the persist step
C10_PersistAfterWorkers ==
    output_file.written =>
        /\ \A w \in Workers : wpc[w] \in Terminated
        /\ output_file.data = all_personal_stats
        /\ orch_pc \in {"extract", "done"}

\* C10 witness: the file holds records of two factions
C10_Witness ==
    /\ output_file.written
    /\ \E i, j \in 1..Len(output_file.data) :
         output_file.data[i].value.faction_name
             # output_file.data[j].value.faction_name

\* a thread that was started and has not ended
Alive(w) == wpc[w] \notin Terminated \cup {"idle"}

\* C11: factions are processed one after the other: no two live workers are
\* bound to different factions, no worker is alive while the main thread
\* fetches the member list of a faction or seeds the queue, and while it
\* starts the threads only those it has started for this faction are alive
C11_GroupsSequential ==
    /\ \A w, v \in Workers :
          (Alive(w) /\ Alive(v))
              => worker_args[w].faction_id = worker_args[v].faction_id
    /\ orch_pc \in {"for_faction", "seed", "crashed"}
          => \A w \in Workers : ~Alive(w)
    /\ orch_pc = "start" => \A w \in Workers : w > threads => ~Alive(w)
    /\ \A w \in Workers :
          Alive(w) => worker_args[w].faction_id = faction_keys[faction_idx].id

\* C11 witness: a worker of the second faction works on an item while a slot
\* of the pool still shows a terminated worker of the first faction
C11_Witness ==
    \E w, v \in Workers :
        /\ wpc[w] \in InAttempt
        /\ worker_args[w].faction_id = "B"
        /\ wpc[v] = "done"
        /\ worker_args[v].faction_id = "A"

\* C12 (as claimed): a worker reaches the loop test again only out of the
\* pacing sleep (or as a thread just started): every finished attempt, also
\* one that re-enqueued its item, is followed by the pacing sleep
C12_PacedAfterEveryAttempt ==
    [][\A w \in Workers :
          (wpc'[w] = "check" /\ wpc[w] # "check")
              => wpc[w] \in {"pace", "idle"} \cup Terminated]_vars

\* the upstream has just given a rate-limit answer
RateLimitAnswered == upstream' # upstream \/ rl_left' # rl_left
\* worker w takes a step from one of the positions pcs
StepsFrom(w, pcs) == wpc[w] \in pcs /\ wpc'[w] # wpc[w]

\* C13: a call answered with the rate-limit code sends the worker to the
\* backoff sleep and nowhere else does the sleep start; from there to the end
\* of the attempt the worker leaves the result store as it is, the sleep
\* itself leaves the queue as it is, then the worker's own item is appended
\* to the queue once, and the attempt ends without a second put or a write
C13_RateLimitedAttempt ==
    [][\A w \in Workers :
          /\ (StepsFrom(w, {"call1", "call2"}) /\ RateLimitAnswered)
                => /\ wpc'[w] = "backoff"
                   /\ all_personal_stats' = all_personal_stats
                   /\ member_queue' = member_queue
          /\ (wpc'[w] = "backoff" /\ wpc[w] # "backoff")
                => (wpc[w] \in {"call1", "call2"} /\ RateLimitAnswered)
          /\ StepsFrom(w, {"backoff"})
                => /\ wpc'[w] = "requeue"
                   /\ all_personal_stats' = all_personal_stats
                   /\ member_queue' = member_queue
                   /\ member_id'[w] = member_id[w]
          /\ StepsFrom(w, {"requeue"})
                => /\ wpc'[w] = "task_done_continue"
                   /\ all_personal_stats' = all_personal_stats
                   /\ member_queue' = Append(member_queue, member_id[w])
          /\ StepsFrom(w, {"task_done_continue"})
                => /\ wpc'[w] = "check"
                   /\ all_personal_stats' = all_personal_stats
                   /\ member_queue' = member_queue
          /\ (member_queue' # member_queue /\ wpc'[w] # wpc[w]
                 /\ Len(member_queue') > Len(member_queue))
                => wpc[w] = "requeue"]_vars

\* C13 witness: a worker was rate-limited on the second call, after it had
\* fetched the reference value; its item is back on the queue once and has no
\* record
C13_Witness ==
    \E w \in Workers :
        /\ wpc[w] = "task_done_continue"
        /\ previous_total[w] >= 0
        /\ response_without_timestamp[w] = HTTP_OK
        /\ Cardinality({i \in 1..Len(member_queue) :
                           member_queue[i] = member_id[w]}) = 1
        /\ ~Recorded(member_id[w])

\* C14 (as claimed): no failure aborts a thread: the main thread is never
\* ended by an exception of the member-list call or of the credential lookup,
\* and no worker thread is ended by an exception, so the run stays on its way
\* to the persist step
C14_FailuresContained ==
    /\ orch_pc # "crashed"
    /\ \A w \in Workers : wpc[w] # "dead"

\* every member id of the explored runs
MemberIds == {"1", "2", "3", "4"}
\* how often m is on the queue
Queued(seq, m) == Cardinality({i \in 1..Len(seq) : seq[i] = m})
\* the positions in which a worker works on its item: from get to the end of
\* the attempt, and not after it has handed the item back to the queue
Working == InAttempt \ {"task_done_continue"}
\* the workers working on m
Holders(pcs, ids, m) == {w \in Workers : pcs[w] \in Working /\ ids[w] = m}
\* in how many places m is: on the queue or with a worker
Places(seq, pcs, ids, m) == Queued(seq, m) + Cardinality(Holders(pcs, ids, m))

\* C15: an item is never in two places (twice on the queue, with two
\* workers, or queued and with a worker); seeding puts every member of the
\* faction on the queue once; afterwards an item leaves its place only when
\* the worker holding it ends an attempt that wrote the record or went
\* through the exception handler, and a get or a re-enqueue moves it between
\* the queue and one worker
C15_NoItemLostOrDuplicated ==
    [][\A m \in MemberIds :
          LET before == Places(member_queue, wpc, member_id, m)
              after == Places(member_queue', wpc', member_id', m)
          IN /\ after <= 1
             /\ (orch_pc = "seed" /\ m \in Keys(members)) => after = 1
             /\ after > before => (orch_pc = "seed" /\ m \in Keys(members))
             /\ after < before
                  => \E w \in Workers :
                        /\ wpc[w] = "task_done" /\ member_id[w] = m
                        /\ wpc'[w] \in {"pace", "check"}
             /\ \A w \in Workers :
                  (wpc'[w] = "task_done" /\ wpc[w] # "task_done"
                      /\ member_id[w] = m)
                      => \/ wpc[w] = "except"
                         \/ wpc[w] = "locked" /\ m \in Keys(all_personal_stats')]_vars

\* C15 witness: an item that was rate-limited is on the queue again while the
\* worker that put it back has not yet acknowledged the attempt, another item
\* is with the other worker and a third one is finished
C15_Witness ==
    \E w, v \in Workers :
        /\ wpc[w] = "task_done_continue"
        /\ Queued(member_queue, member_id[w]) = 1
        /\ wpc[v] \in Working
        /\ member_id[v] # member_id[w]
        /\ \E m \in Keys(members) :
              /\ Places(member_queue, wpc, member_id, m) = 0
              /\ Recorded(m)

\* no member is rate-limited in this run, so no item is retried
NoRetryRun ==
    \A m \in DOMAIN upstream.stats :
        upstream.stats[m].kind \in {"ok", "non200"} /\ upstream.stats[m].rl_at = 0

\* C16 (as claimed): writes are serialized by results_lock, a write sets the
\* key to a record of this attempt's values, and in a run without retries
\* every key is written at most once: each write adds a key the store did
\* not have
C16_WrittenOncePerRun ==
    [][/\ \A w, v \in Workers :
             (wpc'[w] = "locked" /\ wpc'[v] = "locked") => w = v
       /\ \A w \in Workers : wpc'[w] = "locked" <=> results_lock' = w
       /\ all_personal_stats' # all_personal_stats =>
             \E w \in Workers :
                /\ wpc[w] = "locked" /\ results_lock = w
                /\ DictGet(all_personal_stats', member_id[w], NoArgs).all_time_total
                       = current_total[w]
                /\ NoRetryRun => member_id[w] \notin Keys(all_personal_stats)]_vars

\* C16 (amended): the result store changes only by the step of a worker that
\* holds results_lock, and no second worker is inside the write section; the
\* step sets the worker's key to a record made of this attempt's values alone
\* and leaves every other key as it was; a key that has a record already is
\* written again only by a worker of another faction, whose member list
\* contains the member too, never a second time within a faction, whether or
\* not the item was retried
C16_WriteOncePerKey ==
    [][/\ \A w, v \in Workers :
             (wpc'[w] = "locked" /\ wpc'[v] = "locked") => w = v
       /\ \A w \in Workers : wpc'[w] = "locked" <=> results_lock' = w
       /\ all_personal_stats' # all_personal_stats =>
             \E w \in Workers :
                LET k == member_id[w]
                    new == DictGet(all_personal_stats', k, NoArgs)
                IN /\ wpc[w] = "locked" /\ results_lock = w
                   /\ wpc'[w] = "task_done" /\ results_lock' = 0
                   /\ k \in Keys(all_personal_stats')
                   /\ new.all_time_total = current_total[w]
                   /\ new.current_year_value = current_year_value[w]
                   /\ new.faction_name = worker_args[w].faction_name
                   /\ Cardinality({i \in 1..Len(all_personal_stats') :
                                      all_personal_stats'[i].key = k}) = 1
                   /\ \A m \in Keys(all_personal_stats) \ {k} :
                         /\ m \in Keys(all_personal_stats')
                         /\ DictGet(all_personal_stats', m, NoArgs)
                               = DictGet(all_personal_stats, m, NoArgs)
                   /\ Keys(all_personal_stats')
                         = Keys(all_personal_stats) \cup {k}
                   /\ k \in Keys(all_personal_stats) =>
                         DictGet(all_personal_stats, k, NoArgs).faction_name
                             # worker_args[w].faction_name]_vars

\* C16 witness: the record of a member listed by both factions has been
\* written a second time, by a worker of the second faction, and holds the
\* values of that attempt
C16_Witness ==
    \E w \in Workers :
        /\ wpc[w] = "task_done"
        /\ worker_args[w].faction_id = "B"
        /\ member_id[w] \in Keys(worker_args[w].members)
        /\ member_id[w] = all_personal_stats[1].key
        /\ all_personal_stats[1].value.faction_name = "Beta"
        /\ all_personal_stats[1].value.all_time_total = current_total[w]
        /\ Len(all_personal_stats) = 2

\* the upstream answers every call for m with the rate-limit code
Starved(m) == m \in DOMAIN upstream.stats /\ upstream.stats[m].kind = "rate_always"
\* m was put on the queue for the faction being processed
Seeded(m) == m \in Keys(members) /\ orch_pc \in {"start", "join"}

\* C18: an item the upstream rate-limits on every call is, from its seeding
\* on, always on the queue or with one worker that is on the way to put it
\* back; it never gets a record and never reaches the exception handler; a
\* worker of the pool stays alive and a step stays possible, so the join of
\* that faction never completes: no later faction is fetched and nothing is
\* persisted
C18_NoRetryCap ==
    /\ \A m \in MemberIds :
        (Starved(m) /\ Seeded(m)) =>
            /\ Places(member_queue, wpc, member_id, m) = 1
            /\ ~Recorded(m)
            /\ \A w \in Workers :
                  Holding(w, m) =>
                      wpc[w] \in {"key", "call1", "backoff", "requeue",
                                  "task_done_continue"}
            /\ orch_pc = "join" => \E w \in Workers : Alive(w)
            /\ join_idx < num_threads
            /\ faction_idx = 1
            /\ ~output_file.written
            /\ ENABLED Next
    /\ (\E m \in MemberIds : Starved(m)) =>
          /\ orch_pc \in {"for_faction", "seed", "start", "join"}
          /\ faction_idx = 1
          /\ ~output_file.written

\* C18 witness: the starved item is back on the queue after a rate-limited
\* attempt, the other item of the faction is recorded, and the other worker
\* has terminated: only the retries keep the pool alive
C18_Witness ==
    \E m \in MemberIds, w, v \in Workers :
        /\ Starved(m) /\ Seeded(m)
        /\ wpc[w] = "task_done_continue"
        /\ Queued(member_queue, m) = 1
        /\ wpc[v] = "done"
        /\ \E n \in Keys(members) \ {m} : Recorded(n)

\* the factions whose member list, as the upstream gives it, contains m
FactionsListing(m) ==
    {i \in 1..Len(faction_keys) :
        \E ans \in upstream.members[faction_keys[i].id] :
            ans.has_members /\ \E j \in 1..Len(ans.members) : ans.members[j].id = m}

\* C20: between two factions (and at the end of the run) the shared queue is
\* empty and no task is unfinished; hence a worker only ever holds an item of
\* the member list it was started with, calls with a credential of its own
\* faction, and every record carries the name of a faction that lists the
\* member
C20_ItemsStayInTheirFaction ==
    /\ orch_pc \in {"for_faction", "seed", "extract", "done", "crashed"}
          => (member_queue = <<>> /\ unfinished_tasks = 0)
    /\ \A w \in Workers :
          wpc[w] \in InAttempt =>
              /\ member_id[w] \in Keys(worker_args[w].members)
              /\ worker_args[w].members = members
              /\ worker_args[w].faction_id = faction_keys[faction_idx].id
              /\ wpc[w] # "key" =>
                    api_key[w]
                        \in Range(ConfiguredKeys(worker_args[w].faction_id))
    /\ \A i \in 1..Len(all_personal_stats) :
          \E f \in FactionsListing(all_personal_stats[i].key) :
              all_personal_stats[i].value.faction_name
                  = faction_keys[f].faction_name

\* C20 witness: a worker of the second faction calls for that faction's
\* member with that faction's credential, after an item of the first faction
\* was rate-limited, re-enqueued and recorded under the first faction's name
C20_Witness ==
    \E w \in Workers :
        /\ wpc[w] = "call2"
        /\ worker_args[w].faction_id = "B"
        /\ member_id[w] = "4"
        /\ api_key[w] = "b1"
        /\ upstream.stats["3"].rl_at > 0
        /\ DictGet(all_personal_stats, "3", NoArgs).faction_name = "Alpha"

(***************************************************************************)
(* Properties of egg_hunt.py (checked under SpecV1).                       *)
(***************************************************************************)
\* C19 (as claimed): every entry of the finished report of egg_hunt.py is
\* the member's current count minus its reference count floored at 0, so no
\* entry is negative, also for a member whose fetch failed (no stats stored)
\* or whose current count is below the reference
C19_V1DifferenceFloored ==
    orch_pc = "v1_done" =>
        /\ Len(report) = Len(upstream.original)
        /\ \A i \in 1..Len(report) : report[i].difference >= 0
        /\ \A i \in 1..Len(upstream.original) :
              LET id == upstream.original[i].key IN
              \E j \in 1..Len(report) :
                  /\ report[j].member_name = DictGet(members, id, "Unknown")
                  /\ report[j].difference =
                         Max(0, easter_eggs(output_file.data, id)
                                    - easter_eggs(upstream.original, id))
====
